---------------------------- MODULE Spec2Model ----------------------------
(***************************************************************************)
(* impacket/spnego.py: the BER length codec, the GSS-API header, the two   *)
(* SPNEGO negotiation tokens and the SPNEGOCipher security context.        *)
(*                                                                         *)
(* A byte string is kept run-length encoded: a sequence of runs            *)
(* [b |-> octet, n |-> count], n > 0, neighbouring runs of different       *)
(* octets.  b"\x30\x30\x05" is <<[b |-> 48, n |-> 2], [b |-> 5, n |-> 1]>>.*)
(* The representation is canonical, so equality of byte strings is         *)
(* equality of values, and a value of 2^24 octets is one run.              *)
(***************************************************************************)
EXTENDS Integers, Sequences, FiniteSets, TLC

----------------------------------------------------------------------------
(* Python bytes: len, +, data[:n], data[n:], indexing, pack('B', x).       *)

RECURSIVE BLen(_)
BLen(s) == IF s = <<>> THEN 0 ELSE s[1].n + BLen(Tail(s))

Rep(x, count) == IF count = 0 THEN <<>> ELSE <<[b |-> x, n |-> count]>>

B(x) == Rep(x, 1)

Cat(s, t) ==
    IF s = <<>> THEN t
    ELSE IF t = <<>> THEN s
    ELSE IF s[Len(s)].b = t[1].b
         THEN SubSeq(s, 1, Len(s) - 1)
              \o <<[b |-> t[1].b, n |-> s[Len(s)].n + t[1].n]>>
              \o Tail(t)
         ELSE s \o t

\* The number of leading runs of s that lie wholly within its first k octets.
RECURSIVE Whole(_, _)
Whole(s, k) ==
    IF s = <<>> \/ s[1].n > k THEN 0 ELSE 1 + Whole(Tail(s), k - s[1].n)

\* Where octet k falls: after w whole runs and r octets into the next one.
CutAt(s, k, w) == [w |-> w, r |-> k - BLen(SubSeq(s, 1, w))]

Cut(s, k) == CutAt(s, k, Whole(s, k))

TakeCut(s, c) ==
    IF c.w = Len(s) \/ c.r <= 0 THEN SubSeq(s, 1, c.w)
    ELSE Append(SubSeq(s, 1, c.w), [b |-> s[c.w + 1].b, n |-> c.r])

DropCut(s, c) ==
    IF c.w = Len(s) THEN <<>>
    ELSE IF c.r <= 0 THEN SubSeq(s, c.w + 1, Len(s))
    ELSE <<[b |-> s[c.w + 1].b, n |-> s[c.w + 1].n - c.r]>>
         \o SubSeq(s, c.w + 2, Len(s))

\* s[:k]
BTake(s, k) == TakeCut(s, Cut(s, k))

\* s[k:]
BDrop(s, k) == DropCut(s, Cut(s, k))

ByteAt(s, i) == BDrop(s, i)[1].b

RECURSIVE Bytes(_)
Bytes(octets) ==
    IF octets = <<>> THEN <<>> ELSE Cat(B(octets[1]), Bytes(Tail(octets)))

----------------------------------------------------------------------------
(* Module constants.                                                       *)

GSS_API_SPNEGO_UUID == Bytes(<<\h2b, \h06, \h01, \h05, \h05, \h02>>)
ASN1_SEQUENCE == \h30
ASN1_AID == \h60
ASN1_OID == \h06
ASN1_OCTET_STRING == \h04
ASN1_MECH_TYPE == \ha0
ASN1_MECH_TOKEN == \ha2
ASN1_SUPPORTED_MECH == \ha1
ASN1_RESPONSE_TOKEN == \ha2
ASN1_MECH_LIST_MIC == \ha3
ASN1_ENUMERATED == \h0a
SPNEGO_NEG_TOKEN_RESP == \ha1
SPNEGO_NEG_TOKEN_TARG == \ha0
SPNEGO_NEG_TOKEN_INIT == \ha0
\* The NTLMSSP key of the MechTypes table.
NTLMSSP_OID ==
    Bytes(<<\h2b, \h06, \h01, \h04, \h01, \h82, \h37, \h02, \h02, \h0a>>)

----------------------------------------------------------------------------
(* asn1encode: the length determinant, minimal form first, then the data.  *)
(* The final else (raise) needs len(data) > 0xffffffff; no arm of the CASE *)
(* is left for it.                                                         *)

PackH(v) == Cat(B(v \div 256), B(v % 256))

PackL(v) ==
    Cat(Cat(B(v \div 16777216), B((v \div 65536) % 256)),
        Cat(B((v \div 256) % 256), B(v % 256)))

asn1encode(data) ==
    LET L == BLen(data) IN
    CASE 0 <= L /\ L <= \h7F -> Cat(B(L), data)
      [] \h80 <= L /\ L <= \hFF -> Cat(Cat(B(\h81), B(L)), data)
      [] \h100 <= L /\ L <= \hFFFF -> Cat(Cat(B(\h82), PackH(L)), data)
      [] \h10000 <= L /\ L <= \hffffff ->
            Cat(Cat(Cat(B(\h83), B(L \div 65536)), PackH(L % 65536)), data)
      [] \h1000000 <= L /\ L \div 256 <= \hffffff ->
            Cat(Cat(B(\h84), PackL(L)), data)

----------------------------------------------------------------------------
(* asn1decode.  unpack on a slice shorter than its format raises           *)
(* struct.error; data[:n] never raises and stops at the end of data.       *)
(* A slice end larger than the buffer selects the whole buffer, so the     *)
(* unpacked numbers are computed exactly up to the buffer length `cap`     *)
(* and as some number beyond it otherwise.                                 *)

RECURSIVE UnpackBE(_, _, _, _)
UnpackBE(acc, s, k, cap) ==
    IF k = 0 THEN acc
    ELSE IF acc > cap \div 256 THEN cap + 1
    ELSE UnpackBE(acc * 256 + ByteAt(s, 0), BDrop(s, 1), k - 1, cap)

RECURSIVE Shl(_, _, _)
Shl(x, k, cap) ==
    IF k = 0 \/ x = 0 \/ x > cap THEN x ELSE Shl(2 * x, k - 1, cap)

DecodeError == [err |-> TRUE, ans |-> <<>>, total |-> 0]

Decoded(ans, pad) == [err |-> FALSE, ans |-> ans, total |-> BLen(ans) + pad + 1]

\* len2 << 16 + len3 parses as len2 << (16 + len3).
SliceEnd3(len2, len3, cap) == Shl(len2, 16 + len3, cap)

\* The branches on the first octet len1; d is the data after it.
asn1decode_form(len1, d, cap) ==
    CASE len1 = \h81 ->
           IF BLen(d) < 1 THEN DecodeError
           ELSE Decoded(BTake(BDrop(d, 1), ByteAt(d, 0)), 1)
      [] len1 = \h82 ->
           IF BLen(d) < 2 THEN DecodeError
           ELSE Decoded(BTake(BDrop(d, 2), UnpackBE(0, d, 2, cap)), 2)
      [] len1 = \h83 ->
           IF BLen(d) < 3 THEN DecodeError
           ELSE Decoded(BTake(BDrop(d, 3),
                              SliceEnd3(ByteAt(d, 0),
                                        UnpackBE(0, BDrop(d, 1), 2, cap),
                                        cap)), 3)
      [] len1 = \h84 ->
           IF BLen(d) < 4 THEN DecodeError
           ELSE Decoded(BTake(BDrop(d, 4), UnpackBE(0, d, 4, cap)), 4)
      [] OTHER -> Decoded(BTake(d, len1), 0)

asn1decode(data) ==
    IF BLen(data) < 1 THEN DecodeError
    ELSE asn1decode_form(ByteAt(data, 0), BDrop(data, 1), BLen(data))

----------------------------------------------------------------------------
(* The fields dictionary of a token object: a function from field names.   *)

NoFields == [k \in {} |-> <<>>]

Put(fields, key, value) ==
    [k \in DOMAIN fields \cup {key} |-> IF k = key THEN value ELSE fields[k]]

Has(fields, key) == key \in DOMAIN fields

Raised(fields) == [err |-> TRUE, fields |-> fields]

Returned(fields) == [err |-> FALSE, fields |-> fields]

\* unpack('B', s[:1])[0]; -1 stands for the struct.error of an empty slice,
\* which differs from every tag and so ends the decode like a wrong tag.
NextByte(s) == IF s = <<>> THEN -1 ELSE s[1].b

----------------------------------------------------------------------------------------------------------------------------------------------------
(* class GSSAPI.  A decoder is written as the chain of its statements:     *)
(* each operator takes the values computed so far and either raises or     *)
(* hands on to the next.                                                   *)

\* Lines 138-140.
GSSAPI_payload(fields, decode_data, uuid) ==
    IF uuid.err THEN Raised(fields)
    ELSE Returned(Put(Put(fields, "OID", uuid.ans),
                      "Payload", BDrop(decode_data, uuid.total)))

\* Lines 135-137.
GSSAPI_uuid(fields, decode_data) ==
    GSSAPI_payload(fields, decode_data, asn1decode(decode_data))

\* Lines 131-134; outer is the result of line 130.
GSSAPI_oid(fields, outer) ==
    IF outer.err \/ NextByte(outer.ans) # ASN1_OID THEN Raised(fields)
    ELSE GSSAPI_uuid(fields, BDrop(outer.ans, 1))

GSSAPI_fromString(fields, data) ==
    IF NextByte(data) # ASN1_AID THEN Raised(fields)
    ELSE GSSAPI_oid(fields, asn1decode(BDrop(data, 1)))

\* GSSAPI(data): the constructor sets UUID, then parses data if it is given.
GSSAPI_init(data) ==
    IF data = <<>> THEN Returned(Put(NoFields, "UUID", GSS_API_SPNEGO_UUID))
    ELSE GSSAPI_fromString(Put(NoFields, "UUID", GSS_API_SPNEGO_UUID), data)

\* The OID written is fields['UUID']; KeyError when a key is missing.
GSSAPI_getData(fields) ==
    IF ~Has(fields, "UUID") \/ ~Has(fields, "Payload")
    THEN [err |-> TRUE, data |-> <<>>, fields |-> fields]
    ELSE [err |-> FALSE,
          data |-> Cat(B(ASN1_AID),
                       asn1encode(Cat(Cat(B(ASN1_OID),
                                          asn1encode(fields["UUID"])),
                                      fields["Payload"]))),
          fields |-> fields]

----------------------------------------------------------------------------
(* class SPNEGO_NegTokenResp                                               *)

\* Line 256; token is the result of line 255.
Resp_store(fields, token) ==
    IF token.err THEN Raised(fields)
    ELSE Returned(Put(fields, "ResponseToken", token.ans))

\* Lines 251-255; block is the result of line 250.
Resp_octets(fields, block) ==
    IF block.err \/ NextByte(block.ans) # ASN1_OCTET_STRING THEN Raised(fields)
    ELSE Resp_store(fields, asn1decode(BDrop(block.ans, 1)))

\* Lines 249-250: the [2] block, entered without looking at its tag again.
Resp_responseToken(fields, decode_data) ==
    Resp_octets(fields, asn1decode(BDrop(decode_data, 1)))

\* Lines 245-247: a [1] block must be followed by a [2] block.
Resp_afterMech(fields, decode_data) ==
    IF NextByte(decode_data) # ASN1_RESPONSE_TOKEN THEN Raised(fields)
    ELSE Resp_responseToken(fields, decode_data)

\* Lines 241-244; item is the result of line 240.
Resp_mechItem(fields, decode_data, total_bytes, item) ==
    IF item.err THEN Raised(fields)
    ELSE Resp_afterMech(Put(fields, "SupportedMech", item.ans),
                        BDrop(BDrop(decode_data, 1), total_bytes))

\* Lines 236-240; block is the result of line 235.
Resp_mech(fields, decode_data, block) ==
    IF block.err \/ NextByte(block.ans) # ASN1_OID THEN Raised(fields)
    ELSE Resp_mechItem(fields, decode_data, block.total,
                       asn1decode(BDrop(block.ans, 1)))

\* Lines 229-235: what follows the [0] block when anything does.
Resp_afterNegState(fields, decode_data) ==
    IF NextByte(decode_data) # ASN1_SUPPORTED_MECH
    THEN IF NextByte(decode_data) # ASN1_RESPONSE_TOKEN THEN Raised(fields)
         ELSE Resp_responseToken(fields, decode_data)
    ELSE Resp_mech(fields, decode_data, asn1decode(BDrop(decode_data, 1)))

\* Lines 225-227: nothing after the [0] block ends the decode.
Resp_more(fields, decode_data) ==
    IF BLen(decode_data) = 0 THEN Returned(fields)
    ELSE Resp_afterNegState(fields, decode_data)

\* Lines 221-223; item is the result of line 220.
Resp_negStateItem(fields, decode_data, total_bytes, item) ==
    IF item.err THEN Raised(fields)
    ELSE Resp_more(Put(fields, "NegState", item.ans),
                   BDrop(BDrop(decode_data, 1), total_bytes))

\* Lines 217-220; block is the result of line 216.
Resp_negState(fields, decode_data, block) ==
    IF block.err \/ NextByte(block.ans) # ASN1_ENUMERATED THEN Raised(fields)
    ELSE Resp_negStateItem(fields, decode_data, block.total,
                           asn1decode(BDrop(block.ans, 1)))

\* Lines 208-216: the first block of the SEQUENCE.
Resp_body(fields, decode_data) ==
    IF NextByte(decode_data) # ASN1_MECH_TYPE
    THEN IF NextByte(decode_data) # ASN1_RESPONSE_TOKEN THEN Raised(fields)
         ELSE Resp_responseToken(fields, decode_data)
    ELSE Resp_negState(fields, decode_data, asn1decode(BDrop(decode_data, 1)))

\* Line 207 on; seq is the result of line 207.
Resp_sequence(fields, seq) ==
    IF seq.err THEN Raised(fields) ELSE Resp_body(fields, seq.ans)

\* Lines 203-207; outer is the result of line 202.
Resp_outer(fields, outer) ==
    IF outer.err \/ NextByte(outer.ans) # ASN1_SEQUENCE THEN Raised(fields)
    ELSE Resp_sequence(fields, asn1decode(BDrop(outer.ans, 1)))

NegTokenResp_fromString(fields, data) ==
    IF NextByte(data) # SPNEGO_NEG_TOKEN_RESP THEN Raised(fields)
    ELSE Resp_outer(fields, asn1decode(BDrop(data, 1)))

NegTokenResp_init(data) ==
    IF data = <<>> THEN Returned(NoFields)
    ELSE NegTokenResp_fromString(NoFields, data)

NegStateBlock(fields) ==
    Cat(B(SPNEGO_NEG_TOKEN_TARG),
        asn1encode(Cat(B(ASN1_ENUMERATED), asn1encode(fields["NegState"]))))

SupportedMechBlock(fields) ==
    Cat(B(ASN1_SUPPORTED_MECH),
        asn1encode(Cat(B(ASN1_OID), asn1encode(fields["SupportedMech"]))))

ResponseTokenBlock(fields) ==
    Cat(B(ASN1_RESPONSE_TOKEN),
        asn1encode(Cat(B(ASN1_OCTET_STRING),
                       asn1encode(fields["ResponseToken"]))))

MechListMICBlock(fields) ==
    Cat(B(ASN1_MECH_LIST_MIC),
        asn1encode(Cat(B(ASN1_OCTET_STRING),
                       asn1encode(fields["mechListMIC"]))))

RespWrap(blocks) ==
    Cat(B(SPNEGO_NEG_TOKEN_RESP),
        asn1encode(Cat(B(ASN1_SEQUENCE), asn1encode(blocks))))

\* The blocks written, chosen by the if/elif chain; the else arm reads
\* fields['ResponseToken'].
RespBlocks(fields) ==
    IF Has(fields, "NegState") /\ Has(fields, "SupportedMech")
       /\ Has(fields, "ResponseToken")
    THEN Cat(Cat(NegStateBlock(fields), SupportedMechBlock(fields)),
             ResponseTokenBlock(fields))
    ELSE IF Has(fields, "NegState") /\ Has(fields, "SupportedMech")
    THEN Cat(NegStateBlock(fields), SupportedMechBlock(fields))
    ELSE IF Has(fields, "NegState")
    THEN NegStateBlock(fields)
    ELSE IF Has(fields, "mechListMIC")
    THEN Cat(ResponseTokenBlock(fields), MechListMICBlock(fields))
    ELSE ResponseTokenBlock(fields)

\* KeyError when the else arm is taken and ResponseToken is not set.
NegTokenResp_getData(fields) ==
    IF ~Has(fields, "NegState") /\ ~Has(fields, "ResponseToken")
    THEN [err |-> TRUE, data |-> <<>>, fields |-> fields]
    ELSE [err |-> FALSE, data |-> RespWrap(RespBlocks(fields)),
          fields |-> fields]

----------------------------------------------------------------------------
(* class SPNEGO_NegTokenInit(GSSAPI)                                       *)

\* Lines 364-372: OIDs are collected until the data ends or a tag other
\* than 0x06 is met.
RECURSIVE Init_mechTypes(_, _)
Init_mechItem(list, decode_data, item) ==
    IF item.err THEN [err |-> TRUE, list |-> list]
    ELSE Init_mechTypes(Append(list, item.ans), BDrop(decode_data, item.total))

Init_mechTypes(list, decode_data) ==
    IF decode_data = <<>> \/ NextByte(decode_data) # ASN1_OID
    THEN [err |-> FALSE, list |-> list]
    ELSE Init_mechItem(list, BDrop(decode_data, 1),
                       asn1decode(BDrop(decode_data, 1)))

\* Line 386; token is the result of line 385.
Init_tokenStore(fields, token) ==
    IF token.err THEN Raised(fields)
    ELSE Returned(Put(fields, "MechToken", token.ans))

\* Lines 382-385; block is the result of line 381.  A block that does not
\* hold an OCTET STRING is skipped.
Init_tokenOctets(fields, block) ==
    IF block.err \/ NextByte(block.ans) = -1 THEN Raised(fields)
    ELSE IF NextByte(block.ans) = ASN1_OCTET_STRING
    THEN Init_tokenStore(fields, asn1decode(BDrop(block.ans, 1)))
    ELSE Returned(fields)

\* Lines 375-381: the optional [2] block after the mechTypes block.
Init_mechToken(fields, decode_data) ==
    IF BLen(decode_data) > 0 /\ NextByte(decode_data) = ASN1_MECH_TOKEN
    THEN Init_tokenOctets(fields, asn1decode(BDrop(decode_data, 1)))
    ELSE Returned(fields)

\* Lines 363-375; types is the outcome of the loop.
Init_typesStore(fields, rest, types) ==
    IF types.err THEN Raised(Put(fields, "MechTypes", types.list))
    ELSE Init_mechToken(Put(fields, "MechTypes", types.list), rest)

\* Lines 361-363; inner is the result of line 361.
Init_list(fields, rest, inner) ==
    IF inner.err THEN Raised(fields)
    ELSE Init_typesStore(fields, rest, Init_mechTypes(<<>>, inner.ans))

\* Lines 357-361; mech is the result of line 356.
Init_mech(fields, remaining_data, mech) ==
    IF mech.err \/ NextByte(mech.ans) # ASN1_SEQUENCE THEN Raised(fields)
    ELSE Init_list(fields, BDrop(remaining_data, mech.total),
                   asn1decode(BDrop(mech.ans, 1)))

\* Lines 351-356; seq is the result of line 350.
Init_sequence(fields, seq) ==
    IF seq.err \/ NextByte(seq.ans) # ASN1_MECH_TYPE THEN Raised(fields)
    ELSE Init_mech(fields, BDrop(seq.ans, 1), asn1decode(BDrop(seq.ans, 1)))

\* Lines 346-350; outer is the result of line 344.
Init_outer(fields, outer) ==
    IF outer.err \/ NextByte(outer.ans) # ASN1_SEQUENCE THEN Raised(fields)
    ELSE Init_sequence(fields, asn1decode(BDrop(outer.ans, 1)))

\* Lines 339-344; gss is the outcome of GSSAPI.fromString.
Init_payload(gss) ==
    IF gss.err THEN gss
    ELSE IF NextByte(gss.fields["Payload"]) # SPNEGO_NEG_TOKEN_INIT
    THEN Raised(gss.fields)
    ELSE Init_outer(gss.fields, asn1decode(BDrop(gss.fields["Payload"], 1)))

NegTokenInit_fromString(fields, data) ==
    Init_payload(GSSAPI_fromString(fields, data))

\* The class has no constructor of its own: GSSAPI's runs, and calls the
\* overriding fromString.
NegTokenInit_init(data) ==
    IF data = <<>> THEN Returned(Put(NoFields, "UUID", GSS_API_SPNEGO_UUID))
    ELSE NegTokenInit_fromString(Put(NoFields, "UUID", GSS_API_SPNEGO_UUID),
                                 data)

RECURSIVE MechTypesBytes(_)
MechTypesBytes(list) ==
    IF list = <<>> THEN <<>>
    ELSE Cat(Cat(B(ASN1_OID), asn1encode(list[1])), MechTypesBytes(Tail(list)))

MechTokenBytes(fields) ==
    IF Has(fields, "MechToken")
    THEN Cat(B(ASN1_MECH_TOKEN),
             asn1encode(Cat(B(ASN1_OCTET_STRING),
                            asn1encode(fields["MechToken"]))))
    ELSE <<>>

\* Lines 401-408.
InitPayload(fields) ==
    Cat(B(SPNEGO_NEG_TOKEN_INIT),
        asn1encode(Cat(B(ASN1_SEQUENCE),
            asn1encode(Cat(Cat(B(ASN1_MECH_TYPE),
                asn1encode(Cat(B(ASN1_SEQUENCE),
                               asn1encode(MechTypesBytes(fields["MechTypes"]))))),
                MechTokenBytes(fields))))))

\* getData stores the payload in fields['Payload'] and returns the GSSAPI
\* encoding of the object.
NegTokenInit_getData(fields) ==
    IF ~Has(fields, "MechTypes")
    THEN [err |-> TRUE, data |-> <<>>, fields |-> fields]
    ELSE GSSAPI_getData(Put(fields, "Payload", InitPayload(fields)))

----
(* State.  The codec functions are applied to one token at a time: obj is  *)
(* the token built by field assignment, enc the outcome of its getData,    *)
(* buf the buffer handed to the decoder, dec the outcome of decoding it    *)
(* and reenc the outcome of getData on the decoded object.  self is the    *)
(* SPNEGOCipher object, ciphers the ARC4 objects it reaches (by allocation *)
(* number), made the arguments it was constructed from and calls the log   *)
(* of the calls made on it.                                                *)

VARIABLES kind, pc, obj, enc, buf, cut, dec, reenc, made, self, ciphers, calls

vars == <<kind, pc, obj, enc, buf, cut, dec, reenc, made, self, ciphers, calls>>

----------------------------------------------------------------------------
(* Inputs of the codec.                                                    *)

MaxTrail == 2
MaxMechs == 2
BigLen == 65536

Lengths ==
    {0, 1, 127, 128, 255, 256, 65535, 65536, 65537, 16777215, 16777216}

OIDs == {GSS_API_SPNEGO_UUID, NTLMSSP_OID, Rep(\h2b, BigLen)}

Tokens == {Bytes(<<\h4e, \h54>>), <<>>, Rep(\h4e, BigLen + 1)}

NegStates == {B(0), B(1)}

MICs == {Bytes(<<\h01, \h00>>)}

Payloads == {<<>>, Bytes(<<\ha0, \h00>>)}

\* None stands for a field that is not set.
None == <<[b |-> -1, n |-> 1]>>

Opt(S) == S \cup {None}

Only(fields) == [k \in {j \in DOMAIN fields : fields[j] # None} |-> fields[k]]

MechLists == UNION {[1..m -> OIDs] : m \in 0..MaxMechs}

NoOutcome == [err |-> FALSE, data |-> <<>>, fields |-> NoFields]

Asn1Inputs ==
    {[value |-> Rep(\h76, L), trailing |-> Rep(\h54, t)] :
        L \in Lengths, t \in 0..MaxTrail}

GSSAPIInputs == [UUID : OIDs, Payload : Payloads]

NegTokenInitInputs ==
    {Put(Only([MechToken |-> t]), "UUID", GSS_API_SPNEGO_UUID) @@ [MechTypes |-> l] :
        t \in Opt(Tokens), l \in MechLists}

NegTokenRespInputs ==
    {Only(f) : f \in [NegState : Opt(NegStates), SupportedMech : Opt(OIDs),
                      ResponseToken : Opt(Tokens), mechListMIC : Opt(MICs)]}

NoContext == made = NoFields /\ self = NoFields /\ ciphers = <<>> /\ calls = <<>>

CodecInit ==
    /\ \/ kind = "asn1" /\ obj \in Asn1Inputs
       \/ kind = "GSSAPI" /\ obj \in GSSAPIInputs
       \/ kind = "NegTokenInit" /\ obj \in NegTokenInitInputs
       \/ kind = "NegTokenResp" /\ obj \in NegTokenRespInputs
    /\ pc = "built"
    /\ enc = NoOutcome /\ buf = <<>> /\ cut = FALSE
    /\ dec = NoOutcome /\ reenc = NoOutcome
    /\ NoContext

----------------------------------------------------------------------------
(* Steps of the codec.                                                     *)

\* asn1encode(value), followed in the buffer by whatever comes next.
Asn1Encode ==
    /\ kind = "asn1" /\ pc = "built"
    /\ buf' = Cat(asn1encode(obj.value), obj.trailing)
    /\ pc' = "encoded"
    /\ UNCHANGED <<kind, obj, enc, cut, dec, reenc, made, self, ciphers, calls>>

Asn1Decode ==
    /\ kind = "asn1" /\ pc = "encoded"
    /\ dec' = asn1decode(buf)
    /\ pc' = "decoded"
    /\ UNCHANGED <<kind, obj, enc, buf, cut, reenc, made, self, ciphers, calls>>

getData(k, fields) ==
    CASE k = "GSSAPI" -> GSSAPI_getData(fields)
      [] k = "NegTokenInit" -> NegTokenInit_getData(fields)
      [] k = "NegTokenResp" -> NegTokenResp_getData(fields)

construct(k, data) ==
    CASE k = "GSSAPI" -> GSSAPI_init(data)
      [] k = "NegTokenInit" -> NegTokenInit_init(data)
      [] k = "NegTokenResp" -> NegTokenResp_init(data)

\* token.getData()
Encode ==
    /\ kind # "asn1" /\ pc = "built"
    /\ enc' = getData(kind, obj)
    /\ buf' = enc'.data
    /\ pc' = IF enc'.err THEN "raised" ELSE "encoded"
    /\ UNCHANGED <<kind, obj, cut, dec, reenc, made, self, ciphers, calls>>

\* The encoded token loses its last octet on the way to the decoder.
Truncate ==
    /\ kind # "asn1" /\ pc = "encoded" /\ ~cut
    /\ buf' = BTake(buf, BLen(buf) - 1)
    /\ cut' = TRUE
    /\ UNCHANGED <<kind, pc, obj, enc, dec, reenc, made, self, ciphers, calls>>

\* Class(buf)
Decode ==
    /\ kind # "asn1" /\ pc = "encoded"
    /\ dec' = construct(kind, buf) @@ [data |-> <<>>]
    /\ pc' = "decoded"
    /\ UNCHANGED <<kind, obj, enc, buf, cut, reenc, made, self, ciphers, calls>>

\* Class(buf).getData()
Reencode ==
    /\ kind # "asn1" /\ pc = "decoded" /\ ~dec.err
    /\ reenc' = getData(kind, dec.fields)
    /\ pc' = "reencoded"
    /\ UNCHANGED <<kind, obj, enc, buf, cut, dec, made, self, ciphers, calls>>

CodecNext ==
    \/ Asn1Encode
    \/ Asn1Decode
    \/ Encode
    \/ Truncate
    \/ Decode
    \/ Reencode

SpecCodec == CodecInit /\ [][CodecNext]_vars

----------------------------------------------------------------------------
(* class SPNEGOCipher.  What ntlm and ARC4 do is taken from their use: a   *)
(* key derivation names its inputs, an ARC4 object is its key and the      *)
(* number of keystream octets drawn from it so far, and a SEAL or MAC call *)
(* draws octets from the object behind the handle it is given.             *)

MaxCalls == 3

SessionKeys == {"K1", "K2"}

NTLMSSP_NEGOTIATE_EXTENDED_SESSIONSECURITY == "EXTENDED_SESSIONSECURITY"

FlagSets == SUBSET {NTLMSSP_NEGOTIATE_EXTENDED_SESSIONSECURITY, "KEY_EXCH"}

\* Keystream octets one SEAL or MAC call draws.
OctetCounts == {0, 3}

\* Sequence numbers a caller passes to sign.
SeqNums == {0, 5}

Key(derive, mode, base) == [derive |-> derive, mode |-> mode, base |-> base]

\* An attribute the constructor did not set; reading it raises AttributeError.
Unset == Key("unset", "", "")

SIGNKEY(flags, randomSessionKey, mode) ==
    Key("SIGNKEY", mode, randomSessionKey.base)

SEALKEY(flags, randomSessionKey, mode) ==
    Key("SEALKEY", mode, randomSessionKey.base)

ARC4_new(key) == [key |-> key, pos |-> 0]

SEAL(heap, handle, octets) == [heap EXCEPT ![handle].pos = @ + octets]

MAC(heap, handle, octets) == [heap EXCEPT ![handle].pos = @ + octets]

Extended(flags) == NTLMSSP_NEGOTIATE_EXTENDED_SESSIONSECURITY \in flags

\* A constructor whose extended branch hands server the client's cipher.
SPNEGOCipher_init_one_cipher(flags, randomSessionKey) ==
    [self |-> [flags |-> flags,
               clientSigningKey |-> SIGNKEY(flags, randomSessionKey, "Client"),
               serverSigningKey |-> SIGNKEY(flags, randomSessionKey, "Server"),
               clientSealingKey |-> SEALKEY(flags, randomSessionKey, "Client"),
               serverSealingKey |-> SEALKEY(flags, randomSessionKey, "Server"),
               clientSealingHandle |-> 1,
               serverSealingHandle |-> 1,
               sequence |-> 0],
     ciphers |-> <<ARC4_new(SEALKEY(flags, randomSessionKey, "Client")),
                   ARC4_new(SEALKEY(flags, randomSessionKey, "Server"))>>]

\* __init__: the attributes of the new object and the ARC4 objects made.
\* The else branch assigns clientSealingKey twice and serverSealingKey never.
SPNEGOCipher_init(flags, randomSessionKey) ==
    IF Extended(flags)
    THEN [self |-> [flags |-> flags,
                    clientSigningKey |-> SIGNKEY(flags, randomSessionKey, "Client"),
                    serverSigningKey |-> SIGNKEY(flags, randomSessionKey, "Server"),
                    clientSealingKey |-> SEALKEY(flags, randomSessionKey, "Client"),
                    serverSealingKey |-> SEALKEY(flags, randomSessionKey, "Server"),
                    clientSealingHandle |-> 1,
                    serverSealingHandle |-> 2,
                    sequence |-> 0],
          ciphers |-> <<ARC4_new(SEALKEY(flags, randomSessionKey, "Client")),
                        ARC4_new(SEALKEY(flags, randomSessionKey, "Server"))>>]
    ELSE [self |-> [flags |-> flags,
                    clientSigningKey |-> randomSessionKey,
                    serverSigningKey |-> randomSessionKey,
                    clientSealingKey |-> randomSessionKey,
                    serverSealingKey |-> Unset,
                    clientSealingHandle |-> 1,
                    serverSealingHandle |-> 1,
                    sequence |-> 0],
          ciphers |-> <<ARC4_new(randomSessionKey)>>]

Init ==
    /\ kind = "none" /\ pc = "idle" /\ obj = NoFields
    /\ enc = NoOutcome /\ buf = <<>> /\ cut = FALSE
    /\ dec = NoOutcome /\ reenc = NoOutcome
    /\ \E flags \in FlagSets, base \in SessionKeys :
          /\ made = [flags |-> flags, randomSessionKey |-> Key("session", "", base)]
          /\ self = SPNEGOCipher_init(flags, Key("session", "", base)).self
          /\ ciphers = SPNEGOCipher_init(flags, Key("session", "", base)).ciphers
    /\ calls = <<>>

\* One entry of the log: the sequence number handed to ntlm.SEAL or
\* ntlm.MAC, the handle handed with it, the position of its keystream
\* before the call and the octets the call drew.
Call(op, seqNum, handle, octets, reset) ==
    [op |-> op, seqNum |-> seqNum, handle |-> handle,
     at |-> ciphers[handle].pos, octets |-> octets, reset |-> reset,
     raised |-> FALSE]

codecVars == <<kind, pc, obj, enc, buf, cut, dec, reenc>>

\* An encrypt that does not advance the sequence number.
encrypt_same_sequence(octets) ==
    /\ Len(calls) < MaxCalls
    /\ ciphers' = SEAL(ciphers, self.clientSealingHandle, octets)
    /\ calls' = Append(calls, Call("encrypt", self.sequence,
                                   self.clientSealingHandle, octets, FALSE))
    /\ UNCHANGED <<self, made, codecVars>>

encrypt(octets) ==
    /\ Len(calls) < MaxCalls
    /\ ciphers' = SEAL(ciphers, self.clientSealingHandle, octets)
    /\ self' = [self EXCEPT !.sequence = @ + 1]
    /\ calls' = Append(calls, Call("encrypt", self.sequence,
                                   self.clientSealingHandle, octets, FALSE))
    /\ UNCHANGED <<made, codecVars>>

\* The arguments of ntlm.SEAL are read first; serverSealingKey is among them.
decrypt(octets) ==
    /\ Len(calls) < MaxCalls
    /\ IF self.serverSigningKey = Unset \/ self.serverSealingKey = Unset
       THEN /\ calls' = Append(calls, [op |-> "decrypt", seqNum |-> -1,
                                       handle |-> 0, at |-> 0, octets |-> 0,
                                       reset |-> FALSE, raised |-> TRUE])
            /\ UNCHANGED ciphers
       ELSE /\ ciphers' = SEAL(ciphers, self.serverSealingHandle, octets)
            /\ calls' = Append(calls, Call("decrypt", self.sequence,
                                           self.serverSealingHandle, octets,
                                           FALSE))
    /\ UNCHANGED <<self, made, codecVars>>

\* A reset that makes a new cipher for the client direction only.
reset_client_only(o) ==
    [self |-> [o.self EXCEPT !.clientSealingHandle = Len(o.ciphers) + 1],
     ciphers |-> Append(o.ciphers, ARC4_new(o.self.clientSealingKey))]

\* Lines 466-474, on the object o = [self, ciphers]: new ARC4 objects, the
\* handles bound to them.
reset_cipher(o) ==
    IF Extended(o.self.flags)
    THEN [self |-> [o.self EXCEPT !.clientSealingHandle = Len(o.ciphers) + 1,
                                  !.serverSealingHandle = Len(o.ciphers) + 2],
          ciphers |-> o.ciphers \o <<ARC4_new(o.self.clientSealingKey),
                                     ARC4_new(o.self.serverSealingKey)>>]
    ELSE [self |-> [o.self EXCEPT !.clientSealingHandle = Len(o.ciphers) + 1,
                                  !.serverSealingHandle = Len(o.ciphers) + 1],
          ciphers |-> Append(o.ciphers, ARC4_new(o.self.clientSigningKey))]

\* The object after the MAC call and the optional reset, before line 475.
sign_ciphers(octets, reset) ==
    IF reset
    THEN reset_cipher([self |-> self,
                       ciphers |-> MAC(ciphers, self.clientSealingHandle, octets)])
    ELSE [self |-> self,
          ciphers |-> MAC(ciphers, self.clientSealingHandle, octets)]

sign(seqNum, reset, octets) ==
    /\ Len(calls) < MaxCalls
    /\ ciphers' = sign_ciphers(octets, reset).ciphers
    /\ self' = [sign_ciphers(octets, reset).self EXCEPT !.sequence = @ + 1]
    /\ calls' = Append(calls, Call("sign", seqNum, self.clientSealingHandle,
                                   octets, reset))
    /\ UNCHANGED <<made, codecVars>>

Next ==
    \/ \E octets \in OctetCounts : encrypt(octets)
    \/ \E octets \in OctetCounts : decrypt(octets)
    \/ \E seqNum \in SeqNums, reset \in BOOLEAN, octets \in OctetCounts :
          sign(seqNum, reset, octets)

Spec == Init /\ [][Next]_vars

----------------------------------------------------------------------------
(* Properties of the codec, checked under SpecCodec.                       *)

Intact == pc \in {"decoded", "reencoded"} /\ ~cut

\* The octets of the minimal BER length determinant of L.
MinimalForm(L) ==
    IF L <= 127 THEN 1
    ELSE IF L <= 255 THEN 2
    ELSE IF L <= 65535 THEN 3
    ELSE IF L <= 16777215 THEN 4
    ELSE 5

\* C3: for a value of any length in each of the five forms, asn1encode
\* emits the minimal determinant, and asn1decode of the encoding followed by
\* any trailing octets returns exactly the value and, as the count
\* consumed, the length of the encoding.
C3_LengthCodec ==
    (kind = "asn1" /\ pc = "decoded") =>
        /\ BLen(asn1encode(obj.value))
              = MinimalForm(BLen(obj.value)) + BLen(obj.value)
        /\ ~dec.err
        /\ dec.ans = obj.value
        /\ dec.total = BLen(asn1encode(obj.value))

\* C4: a valid encoded GSSAPI, NegTokenInit or NegTokenResp token with its
\* last octet removed is never decoded successfully: decode ends in an
\* error.
C4_TruncatedIsError ==
    (kind \in {"GSSAPI", "NegTokenInit", "NegTokenResp"}
     /\ pc = "decoded" /\ cut) => dec.err

\* C7: for every mechanism OID and payload, decoding the GSS-API header
\* and encoding the decoded object again yields the bytes decoded.
C7_GSSAPIRoundTrip ==
    (kind = "GSSAPI" /\ Intact) =>
        /\ ~dec.err
        /\ pc = "reencoded" => (~reenc.err /\ reenc.data = buf)

\* C2: decoding an encoded NegTokenInit yields the same MechTypes in the
\* same order and a MechToken exactly when one was set, with the same
\* bytes, and encoding the decoded object yields the bytes decoded.
C2_NegTokenInitRoundTrip ==
    (kind = "NegTokenInit" /\ Intact) =>
        /\ ~dec.err
        /\ dec.fields["MechTypes"] = obj["MechTypes"]
        /\ Has(dec.fields, "MechToken") <=> Has(obj, "MechToken")
        /\ Has(obj, "MechToken") /\ Has(dec.fields, "MechToken") =>
              dec.fields["MechToken"] = obj["MechToken"]
        /\ pc = "reencoded" => (~reenc.err /\ reenc.data = buf)

\* The field sets of the encoder's shapes.
EncoderShapes ==
    {{"NegState", "SupportedMech", "ResponseToken"},
     {"NegState", "SupportedMech"},
     {"NegState"},
     {"ResponseToken"},
     {"ResponseToken", "mechListMIC"}}

\* C1: a NegTokenResp whose set of fields is one of the encoder's shapes
\* decodes from its encoding without error to exactly the same fields with
\* the same values.
C1_NegTokenRespRoundTrip ==
    (kind = "NegTokenResp" /\ pc = "decoded" /\ ~cut
     /\ DOMAIN obj \in EncoderShapes) =>
        (~dec.err /\ dec.fields = obj)

\* A BER reader for the statement of C10: the length determinant at the
\* start of s, as the octets it takes and the length it gives.
BerLength(s) ==
    IF s[1].b < 128 THEN [octets |-> 1, length |-> s[1].b]
    ELSE [octets |-> 1 + (s[1].b - 128),
          length |-> UnpackBE(0, BDrop(s, 1), s[1].b - 128, BLen(s))]

\* The contents of the tag-length-value element at the start of s.
BerContents(s) ==
    BTake(BDrop(s, 1 + BerLength(BDrop(s, 1)).octets),
          BerLength(BDrop(s, 1)).length)

\* The tags of the elements that s is the concatenation of.
RECURSIVE BerTags(_)
BerTags(s) ==
    IF s = <<>> THEN {}
    ELSE {s[1].b}
         \cup BerTags(BDrop(s, 1 + BerLength(BDrop(s, 1)).octets
                                 + BerLength(BDrop(s, 1)).length))

FieldTag(name) ==
    CASE name = "NegState" -> \ha0
      [] name = "SupportedMech" -> \ha1
      [] name = "ResponseToken" -> \ha2
      [] name = "mechListMIC" -> \ha3

\* C10: for every combination of set fields, getData fails or returns
\* bytes whose SEQUENCE holds a block for exactly the fields that are set.
C10_NoFieldDropped ==
    (kind = "NegTokenResp" /\ pc = "encoded" /\ ~cut) =>
        BerTags(BerContents(BerContents(enc.data)))
            = {FieldTag(name) : name \in DOMAIN obj}

----------------------------------------------------------------------------
(* Properties of the security context, checked under Spec.                 *)

\* The calls among the first k of the log that advance the counter.
Advancing(k) == {j \in 1..k : calls[j].op \in {"encrypt", "sign"}}

\* C5 as claimed: the counter equals the number of seal, unseal and sign
\* calls made, and the k-th call hands sequence number k-1 to the
\* primitive.
C5_EveryCallAdvances ==
    /\ self.sequence = Len(calls)
    /\ \A k \in 1..Len(calls) : calls[k].seqNum = k - 1

\* C5 as amended: the counter starts at 0 and equals the number of seal
\* and sign calls made; unseal leaves it unchanged.  A seal or unseal call
\* hands the primitive the number of seal and sign calls before it, so no
\* two seal calls use the same sequence number; sign hands on the number
\* its caller passed.
C5_SealAndSignAdvance ==
    /\ self.sequence = Cardinality(Advancing(Len(calls)))
    /\ \A k \in 1..Len(calls) :
          (calls[k].op \in {"encrypt", "decrypt"} /\ ~calls[k].raised) =>
              calls[k].seqNum = Cardinality(Advancing(k - 1))
    /\ \A j, k \in 1..Len(calls) :
          (j # k /\ calls[j].op = "encrypt" /\ calls[k].op = "encrypt") =>
              calls[j].seqNum # calls[k].seqNum

\* An unseal between two seals, then a sign.
C5_Witness ==
    /\ Len(calls) >= 3
    /\ calls[1].op = "encrypt" /\ calls[2].op = "decrypt"
    /\ calls[3].op = "encrypt" /\ calls[3].seqNum = 1
    /\ self.sequence = 2

\* C6: without extended session security all four keys are defined and
\* equal to the session key, one keystream serves both directions, and no
\* seal, unseal or sign call ends in an error.
C6_NonExtendedKeys ==
    ~Extended(made.flags) =>
        /\ self.clientSigningKey = made.randomSessionKey
        /\ self.serverSigningKey = made.randomSessionKey
        /\ self.clientSealingKey = made.randomSessionKey
        /\ self.serverSealingKey = made.randomSessionKey
        /\ self.clientSealingHandle = self.serverSealingHandle
        /\ \A k \in 1..Len(calls) : ~calls[k].raised

LastCall == calls'[Len(calls')]

Called(op) == Len(calls') = Len(calls) + 1 /\ LastCall.op = op

ClientCipher == ciphers[self.clientSealingHandle]
ServerCipher == ciphers[self.serverSealingHandle]

\* Both directions as the constructor left them: the same keys, nothing
\* drawn, one object or two as then.
AsConstructed(o, heap, new) ==
    /\ heap[o.clientSealingHandle] = new.ciphers[new.self.clientSealingHandle]
    /\ heap[o.serverSealingHandle] = new.ciphers[new.self.serverSealingHandle]
    /\ (o.clientSealingHandle = o.serverSealingHandle)
          <=> (new.self.clientSealingHandle = new.self.serverSealingHandle)

C8_Step ==
    Called("sign") =>
        /\ self' = [self EXCEPT !.sequence = self.sequence + 1,
                                !.clientSealingHandle = self'.clientSealingHandle,
                                !.serverSealingHandle = self'.serverSealingHandle]
        /\ LastCall.reset =>
              /\ AsConstructed(self', ciphers',
                               SPNEGOCipher_init(made.flags, made.randomSessionKey))
              /\ ClientCipher' = ARC4_new(self.clientSealingKey)
              /\ Extended(self.flags) =>
                    ServerCipher' = ARC4_new(self.serverSealingKey)
        /\ ~LastCall.reset =>
              /\ Len(ciphers') = Len(ciphers)
              /\ self'.clientSealingHandle = self.clientSealingHandle
              /\ self'.serverSealingHandle = self.serverSealingHandle
              /\ ServerCipher' = ServerCipher \/ ServerCipher' = ClientCipher'

\* C8: in both flag modes, when sign returns with reset_cipher set, both
\* keystreams are as the constructor left them, made anew from the sealing
\* keys; the flags and the four keys are unchanged and the counter is one
\* more.  Without reset_cipher no keystream is made anew.
C8_ResetOnSign == [][C8_Step]_vars

\* A sign with reset_cipher after both directions have drawn keystream.
C8_Witness ==
    /\ Len(calls) = 3
    /\ calls[1].op = "encrypt" /\ calls[1].octets > 0
    /\ calls[2].op = "decrypt" /\ calls[2].octets > 0
    /\ calls[3].op = "sign" /\ calls[3].reset /\ calls[3].octets > 0
    /\ ClientCipher.pos = 0 /\ ServerCipher.pos = 0

\* The keystream octets the client direction has drawn since its cipher
\* was made, by the seal and sign calls of the log alone.
RECURSIVE ClientDrawn(_)
ClientDrawn(log) ==
    IF log = <<>> THEN 0
    ELSE IF log[Len(log)].op = "sign" /\ log[Len(log)].reset THEN 0
    ELSE IF log[Len(log)].op \in {"encrypt", "sign"}
    THEN log[Len(log)].octets + ClientDrawn(SubSeq(log, 1, Len(log) - 1))
    ELSE ClientDrawn(SubSeq(log, 1, Len(log) - 1))

C9_Step ==
    Extended(self.flags) =>
        /\ Called("decrypt") =>
              /\ ClientCipher' = ClientCipher
              /\ self'.clientSealingHandle = self.clientSealingHandle
        /\ (Called("encrypt") \/ (Called("sign") /\ ~LastCall.reset)) =>
              /\ ServerCipher' = ServerCipher
              /\ self'.serverSealingHandle = self.serverSealingHandle
        /\ Called("encrypt") =>
              /\ LastCall.seqNum = Cardinality(Advancing(Len(calls)))
              /\ LastCall.at = ClientDrawn(calls)

\* C9: with extended session security, unseal never changes the
\* client-direction keystream, and seal and sign without reset never
\* change the server-direction keystream; the keystream position and the
\* sequence number a seal call uses are those the seal and sign calls
\* before it give, whatever unseal calls come between.
C9_DirectionsIndependent == [][C9_Step]_vars

\* A seal after an unseal that drew keystream, both directions advanced.
C9_Witness ==
    /\ Extended(self.flags)
    /\ Len(calls) = 3
    /\ calls[1].op = "encrypt" /\ calls[1].octets > 0
    /\ calls[2].op = "decrypt" /\ calls[2].octets > 0
    /\ calls[3].op = "encrypt" /\ calls[3].at = calls[1].octets
    /\ ServerCipher.pos = calls[2].octets

=============================================================================
